---- MODULE Spec2Model ----
(***************************************************************************)
(* CalDAV DELETE behaviours: twistedcaldav/method/delete_common.py,        *)
(* class DeleteResource.                                                   *)
(*                                                                         *)
(* A request is one DeleteResource object.  Its inlineCallbacks generators *)
(* are cut into steps at the yields on collaborators that change the       *)
(* store, take the lock or may raise; reads that precede such a yield are  *)
(* part of the same step.  Several requests interleave at these steps.     *)
(***************************************************************************)
EXTENDS Integers, Sequences, FiniteSets, TLC

\* Number of children of the calendar collection and of the address book.
NumChildren == 2

\* Number of members one underlying delete of a collection can fail to remove.
MaxFailed == 1

Req == {1, 2}

----------------------------------------------------------------------------
(* Resources.  A URI is a record: c names the collection (or the plain     *)
(* resource) and n the child's name in it, 0 for the collection itself.    *)

Root  == [c |-> "root",  n |-> 0]
Home  == [c |-> "home",  n |-> 0]
Cal   == [c |-> "cal",   n |-> 0]
AB    == [c |-> "ab",    n |-> 0]
Inbox == [c |-> "inbox", n |-> 0]
File  == [c |-> "file",  n |-> 0]

joinURL(deluri, childname) == [c |-> deluri.c, n |-> childname]

\* A member of a collection's directory that is no child resource (the
\* index database): it can only appear in the underlying delete's errors.
Db(coll) == [c |-> coll.c, n |-> -1]

ChildNames(coll) ==
    IF coll \in {Cal, AB} THEN 1..NumChildren
    ELSE IF coll = Inbox THEN {1}
    ELSE {}

Members(coll) ==
    IF coll = Home THEN {Cal, AB, Inbox, File}
    ELSE {joinURL(coll, i) : i \in ChildNames(coll)}

Subtree(u) ==
    {u} \cup Members(u) \cup UNION {Members(m) : m \in Members(u)}

AllResources == Subtree(Home)

ParentOf(u) ==
    IF u.n # 0 THEN [c |-> u.c, n |-> 0]
    ELSE IF u = Home THEN Root ELSE Home

isCollection(u) == u \in {Root, Home, Cal, AB, Inbox}

isCalendarCollectionResource(u) == u = Cal

\* A calendar collection or a scheduling inbox.
isPseudoCalendarCollectionResource(u) == u \in {Cal, Inbox}

isAddressBookCollectionResource(u) == u = AB

\* The UID of a calendar object: one per object of a collection.
resourceUID(u) == u.n

NoLock == 0

----------------------------------------------------------------------------
(* Outcomes.  An error map is a function from the URIs that failed to the  *)
(* status recorded for each.                                               *)

NoErrors == <<>>

Plain(code) == [code |-> code, errors |-> NoErrors]

NoResponse == Plain("none")

NO_CONTENT == Plain("NoContent")

MultiStatusResponse(errs) == [code |-> "MultiStatus", errors |-> errs]

\* ResponseQueue.add
ErrorsAdd(errs, uri, code) ==
    [u \in DOMAIN errs \cup {uri} |-> IF u = uri THEN code ELSE errs[u]]

\* errors.responses.update(more.children)
ErrorsUpdate(errs, more) ==
    [u \in DOMAIN errs \cup DOMAIN more |->
        IF u \in DOMAIN more THEN more[u] ELSE errs[u]]

\* ResponseQueue.response
ErrorsResponse(errs) ==
    IF DOMAIN errs # {} THEN MultiStatusResponse(errs) ELSE NO_CONTENT

MergeResponse(errs, more) ==
    IF more.code = "MultiStatus" THEN ErrorsUpdate(errs, more.errors) ELSE errs

----------------------------------------------------------------------------
VARIABLES
    present,      \* the resources that exist in the store
    scheduleTag,  \* resource -> its ScheduleTag dead property, "" when none
    quotaOn,      \* whether the resources report a quota
    quotaUsed,    \* the quota root's used bytes
    syncToken,    \* collection -> revision
    index,        \* the removals the collections' indexes recorded
    share,        \* collection -> [default, virtual, attached, shared]
    lockHolder,   \* UID -> the request holding ImplicitUIDLock, 0 when free
    rq,           \* request -> its DeleteResource object and generator frames
    log           \* request -> the collaborator calls it made, in order

vars == <<present, scheduleTag, quotaOn, quotaUsed, syncToken, index, share,
          lockHolder, rq, log>>

store == <<present, scheduleTag, quotaOn, quotaUsed, syncToken, index, share>>

----------------------------------------------------------------------------
(* Collaborators of the store.                                             *)

Weight(u) == IF u.n > 0 THEN u.n ELSE 1

RECURSIVE SumWeight(_)
SumWeight(S) ==
    IF S = {} THEN 0
    ELSE LET u == CHOOSE x \in S : TRUE IN Weight(u) + SumWeight(S \ {u})

\* delresource.quotaSize(request): the bytes the resource and what it holds use.
quotaSize(u) ==
    IF u \in present THEN SumWeight(Subtree(u) \cap present) ELSE 0

\* delresource.listChildren(), in listing order.
RECURSIVE ListFrom(_, _)
ListFrom(coll, i) ==
    IF i > NumChildren THEN <<>>
    ELSE IF i \in ChildNames(coll) /\ joinURL(coll, i) \in present
         THEN <<i>> \o ListFrom(coll, i + 1)
         ELSE ListFrom(coll, i + 1)

listChildren(coll) == ListFrom(coll, 1)

Ev(op, uri, arg) == [op |-> op, uri |-> uri, arg |-> arg]

Logged(r, evs) == log' = [log EXCEPT ![r] = @ \o evs]

Set(r, q) == rq' = [rq EXCEPT ![r] = q]

----------------------------------------------------------------------------
(* DeleteResource.__init__                                                 *)

Frames ==
    [delresource |-> Root, delparent |-> Root, caller |-> "none",
     myquota |-> FALSE, old_size |-> 0, scheduler |-> FALSE,
     lock |-> NoLock, hasLock |-> FALSE, response |-> NoResponse,
     exc |-> "none",
     coll |-> Root, collparent |-> Root, collcaller |-> "none",
     todo |-> <<>>, errors |-> NoErrors,
     collresponse |-> NoResponse,
     cals |-> <<>>, colerrors |-> NoErrors,
     outcome |-> NoResponse]

DeleteResourceInit(pc, resource, depth, internal, allow, header) ==
    [pc |-> pc, resource |-> resource, parent |-> ParentOf(resource),
     depth |-> depth, internal_request |-> internal,
     allowImplicitSchedule |-> allow, header |-> header] @@ Frames

NoRequest == DeleteResourceInit("idle", Root, "infinity", TRUE, FALSE, "")

CalendarObject == joinURL(Cal, 1)

Targets == {CalendarObject, Cal, joinURL(AB, 1), AB, Home, joinURL(Inbox, 1), File}

InitStore(gone, tag, q, def, virt, shared, sharedColl) ==
    /\ present = AllResources \ gone
    /\ scheduleTag = [u \in AllResources |->
                        IF u = CalendarObject THEN tag
                        ELSE IF u.c = "cal" /\ u.n > 0 THEN "t1" ELSE ""]
    /\ quotaOn = q
    /\ quotaUsed = IF q THEN SumWeight(AllResources \ gone) ELSE 0
    /\ syncToken = [c \in {Cal, AB, Inbox} |-> 1]
    /\ index = {}
    /\ share = [c \in {Cal, AB} |->
                  [default  |-> (c = Cal /\ def),
                   virtual  |-> (c = sharedColl /\ virt),
                   attached |-> (c = sharedColl /\ virt),
                   shared   |-> (c = sharedColl /\ shared)]]
    /\ lockHolder = [u \in 1..NumChildren |-> NoLock]
    /\ log = [r \in Req |-> <<>>]

\* One request, of any kind run dispatches on.
Init ==
    \E target \in Targets, depth \in {"0", "infinity"},
       internal \in BOOLEAN, allow \in BOOLEAN, header \in {"", "t1", "t2"},
       tag \in {"", "t1"}, gone \in BOOLEAN, q \in BOOLEAN,
       def \in BOOLEAN, virt \in BOOLEAN, shared \in BOOLEAN :
        /\ isCollection(target) \/ depth = "infinity"
        /\ target \in {CalendarObject, Cal, Home} \/ (~internal /\ allow)
        /\ target \in {CalendarObject, Cal} \/ header = ""
        /\ target = CalendarObject \/ (tag = "t1" /\ ~gone /\ header # "t2")
        /\ target \in {Cal, Home} \/ ~def
        /\ target \in {CalendarObject, Cal, Home, AB} \/ ~virt
        /\ target \in {Cal, AB} \/ ~shared
        /\ InitStore(IF gone THEN {target} ELSE {}, tag, q, def, virt, shared,
                     IF target = AB THEN AB ELSE Cal)
        /\ rq = [r \in Req |->
                   IF r = 1
                   THEN DeleteResourceInit("run", target, depth, internal, allow, header)
                   ELSE NoRequest]

\* Two client requests on calendar objects of the same collection.
InitConc ==
    \E t1 \in 1..NumChildren, t2 \in 1..NumChildren, q \in BOOLEAN :
        /\ InitStore({}, "t1", q, FALSE, FALSE, FALSE, Cal)
        /\ rq = [r \in Req |->
                   DeleteResourceInit("run", joinURL(Cal, IF r = 1 THEN t1 ELSE t2),
                                      "infinity", FALSE, TRUE, "")]

----------------------------------------------------------------------------
(* run                                                                     *)

EnterLeaf(q, pc, delresource, delparent, caller) ==
    [q EXCEPT !.pc = pc, !.delresource = delresource, !.delparent = delparent,
              !.caller = caller, !.myquota = FALSE, !.old_size = 0,
              !.scheduler = FALSE, !.lock = NoLock, !.hasLock = FALSE,
              !.response = NoResponse, !.exc = "none"]

EnterCollection(q, pc, coll, collparent, collcaller) ==
    [q EXCEPT !.pc = pc, !.coll = coll, !.collparent = collparent,
              !.collcaller = collcaller, !.todo = <<>>, !.errors = NoErrors]

StrategyCollectionFirst(resource, parent) ==
    IF isCollection(resource) THEN "deleteCollection"
    ELSE IF isCalendarCollectionResource(parent) THEN "deleteCalendarResource"
    ELSE IF isAddressBookCollectionResource(parent) THEN "deleteAddressBookResource"
    ELSE "deleteResource"

\* Lines 445-457: the first rule that matches selects the strategy.
Strategy(resource, parent) ==
    IF isCalendarCollectionResource(parent) THEN "deleteCalendarResource"
    ELSE IF isCalendarCollectionResource(resource) THEN "deleteCalendar"
    ELSE IF isAddressBookCollectionResource(parent) THEN "deleteAddressBookResource"
    ELSE IF isAddressBookCollectionResource(resource) THEN "deleteAddressBook"
    ELSE IF isCollection(resource) THEN "deleteCollection"
    ELSE "deleteResource"

Run(r) ==
    LET q == rq[r]
        s == Strategy(q.resource, q.parent) IN
    /\ q.pc = "run"
    /\ Set(r, CASE s = "deleteCalendarResource" ->
                     EnterLeaf(q, "cr_check", q.resource, q.parent, "run")
                [] s = "deleteCalendar" ->
                     EnterCollection(q, "dc_check", q.resource, q.parent, "run")
                [] s = "deleteAddressBookResource" ->
                     EnterLeaf(q, "ar_delete", q.resource, q.parent, "run")
                [] s = "deleteAddressBook" ->
                     EnterCollection(q, "da_check", q.resource, q.parent, "run")
                [] s = "deleteCollection" ->
                     [q EXCEPT !.pc = "col_check"]
                [] OTHER ->
                     EnterLeaf(q, "dr_delete", q.resource, q.parent, "run"))
    /\ Logged(r, <<Ev(s, q.resource, 0)>>)
    /\ UNCHANGED <<store, lockHolder>>

\* The outcome of a request: a returned response, or the error raised.
Finish(q, response, exc) ==
    [q EXCEPT !.pc = "done",
              !.outcome = IF exc = "none" THEN response ELSE Plain(exc)]

----------------------------------------------------------------------------
(* validIfScheduleMatch.  It tests self.resource, the request's target.    *)
(* With a header and a target that is missing or has no ScheduleTag,       *)
(* line 73 formats the unassigned local scheduletag: UnboundLocalError.    *)

HeaderMatched(q) ==
    /\ q.resource \in present
    /\ scheduleTag[q.resource] # ""
    /\ scheduleTag[q.resource] = q.header

ScheduleTagRead(q) ==
    q.resource \in present /\ scheduleTag[q.resource] # ""

validIfScheduleMatch(q) ==
    IF q.internal_request \/ q.header = "" THEN "none"
    ELSE IF HeaderMatched(q) THEN "none"
    ELSE IF ScheduleTagRead(q) THEN "PreconditionFailed"
    ELSE "Error"

----------------------------------------------------------------------------
(* deleteCalendarResource                                                  *)

\* Line 145: the implicit scheduling test is made.
WantsScheduler(q) == ~q.internal_request /\ q.allowImplicitSchedule

\* Line 178: the notification is sent.
DoesScheduling(q) ==
    q.scheduler /\ ~q.internal_request /\ q.allowImplicitSchedule

CleansLockOnSuccessOnly(q) == q.lock # NoLock /\ q.exc = "none"

\* Line 185: the finally clause cleans the lock when there is one.
CleansLock(q) == q.lock # NoLock

TimeoutPropagates == "Error"

\* Lines 181-182: MemcacheLockTimeoutError becomes HTTPError(CONFLICT).
TimeoutError == "Conflict"

\* Lines 169-172: what follows the underlying delete.
AfterDelete(q) ==
    IF q.myquota THEN "cr_quota"
    ELSE IF q.response = NO_CONTENT THEN "cr_bump"
    ELSE "cr_finally"

AfterQuota(q) ==
    IF q.response = NO_CONTENT THEN "cr_bump" ELSE "cr_finally"

Raise(q, pc, exc) == [q EXCEPT !.pc = pc, !.exc = exc]

\* Line 134: the precondition is evaluated only when a client sent the
\* header; the event records whether it let the delete proceed.
PreconditionEvent(q, d, v) ==
    IF q.internal_request \/ q.header = "" THEN <<>>
    ELSE <<Ev("ifScheduleMatch", d, IF v = "none" THEN 1 ELSE 0)>>

ShareeMaySchedule(q) == FALSE

\* Lines 152-153: a sharee may not delete a scheduling object.
ShareeCannotSchedule(q) == share[q.delparent].virtual

LockAlways(d, do_implicit_action) == resourceUID(d)

\* Lines 144, 150, 159: a lock on the UID only when an implicit action
\* is needed.
LockFor(d, do_implicit_action) ==
    IF do_implicit_action THEN resourceUID(d) ELSE NoLock

\* Lines 134-159: precondition, quota reads, scheduling test, lock object.
DeleteCalendarResourceCheck(r) ==
    LET q == rq[r]
        d == q.delresource
        v == validIfScheduleMatch(q)
        pre == PreconditionEvent(q, d, v)
        q1 == [q EXCEPT !.myquota = quotaOn,
                        !.old_size = IF quotaOn THEN quotaSize(d) ELSE 0] IN
    /\ q.pc = "cr_check"
    /\ UNCHANGED <<store, lockHolder>>
    /\ IF v # "none"
       THEN Set(r, Raise(q, "cr_return", v)) /\ Logged(r, pre)
       ELSE IF ~WantsScheduler(q)
       THEN Set(r, [q1 EXCEPT !.pc = "cr_delete"]) /\ Logged(r, pre)
       ELSE IF d \notin present
       THEN \* iCalendarForUser: no data to read
            Set(r, Raise(q1, "cr_return", "Error")) /\ Logged(r, pre)
       ELSE \E do_implicit_action \in BOOLEAN :
              LET q2 == [q1 EXCEPT !.scheduler = TRUE]
                  l == LockFor(d, do_implicit_action) IN
              /\ Logged(r, pre \o <<Ev("testImplicit", d,
                                       IF do_implicit_action THEN 1 ELSE 0)>>)
              /\ IF do_implicit_action /\ ShareeCannotSchedule(q)
                 THEN Set(r, Raise(q2, "cr_return", "Forbidden"))
                 ELSE Set(r, [q2 EXCEPT !.pc = IF l # NoLock THEN "cr_acquire"
                                               ELSE "cr_delete",
                                        !.lock = l])

\* Line 163: lock.acquire().  It waits while another request holds the
\* lock and raises MemcacheLockTimeoutError when its timeout elapses.
DeleteCalendarResourceAcquire(r) ==
    LET q == rq[r] IN
    /\ q.pc = "cr_acquire"
    /\ UNCHANGED store
    /\ \/ /\ lockHolder[q.lock] = NoLock
          /\ lockHolder' = [lockHolder EXCEPT ![q.lock] = r]
          /\ Set(r, [q EXCEPT !.pc = "cr_delete", !.hasLock = TRUE])
          /\ Logged(r, <<Ev("lock", q.delresource, q.lock)>>)
       \/ /\ lockHolder[q.lock] # NoLock
          /\ Set(r, Raise(q, "cr_finally", TimeoutError))
          /\ Logged(r, <<Ev("timeout", q.delresource, q.lock)>>)
          /\ UNCHANGED lockHolder

\* Line 166: delete(deluri, delresource.fp, self.depth) of a file.
DeleteCalendarResourceDelete(r) ==
    LET q == rq[r]
        d == q.delresource IN
    /\ q.pc = "cr_delete"
    /\ UNCHANGED <<scheduleTag, quotaOn, quotaUsed, syncToken, index, share,
                   lockHolder>>
    /\ \/ /\ d \in present
          /\ present' = present \ {d}
          /\ LET q1 == [q EXCEPT !.response = NO_CONTENT] IN
             Set(r, [q1 EXCEPT !.pc = AfterDelete(q1)])
          /\ Logged(r, <<Ev("delete", d, 1)>>)
       \/ /\ Set(r, Raise(q, "cr_finally",
                          IF d \in present THEN "Error" ELSE "NotFound"))
          /\ Logged(r, <<>>)
          /\ UNCHANGED present

\* Line 170: delresource.quotaSizeAdjust(self.request, -old_size).
DeleteCalendarResourceQuota(r) ==
    LET q == rq[r] IN
    /\ q.pc = "cr_quota"
    /\ UNCHANGED <<present, scheduleTag, quotaOn, syncToken, index, share,
                   lockHolder>>
    /\ \/ /\ quotaUsed' = quotaUsed - q.old_size
          /\ Set(r, [q EXCEPT !.pc = AfterQuota(q)])
          /\ Logged(r, <<Ev("quota", q.delresource, -q.old_size)>>)
       \/ /\ Set(r, Raise(q, "cr_finally", "Error"))
          /\ Logged(r, <<>>)
          /\ UNCHANGED quotaUsed

\* Lines 173-175: parent.bumpSyncToken(), then index.deleteResource.
DeleteCalendarResourceBump(r) ==
    LET q == rq[r]
        p == q.delparent
        newrevision == syncToken[p] + 1 IN
    /\ q.pc = "cr_bump"
    /\ UNCHANGED <<present, scheduleTag, quotaOn, quotaUsed, share, lockHolder>>
    /\ \/ /\ syncToken' = [syncToken EXCEPT ![p] = newrevision]
          /\ index' = index \cup {[uri |-> q.delresource, rev |-> newrevision]}
          /\ Set(r, [q EXCEPT !.pc = IF DoesScheduling(q) THEN "cr_notify"
                                     ELSE "cr_finally"])
          /\ Logged(r, <<Ev("bump", p, newrevision),
                         Ev("index", q.delresource, newrevision)>>)
       \/ /\ syncToken' = [syncToken EXCEPT ![p] = newrevision]
          /\ Set(r, Raise(q, "cr_finally", "Error"))
          /\ Logged(r, <<Ev("bump", p, newrevision)>>)
          /\ UNCHANGED index
       \/ /\ Set(r, Raise(q, "cr_finally", "Error"))
          /\ Logged(r, <<>>)
          /\ UNCHANGED <<syncToken, index>>

\* Line 179: scheduler.doImplicitScheduling().
DeleteCalendarResourceNotify(r) ==
    LET q == rq[r] IN
    /\ q.pc = "cr_notify"
    /\ UNCHANGED <<store, lockHolder>>
    /\ \/ /\ Set(r, [q EXCEPT !.pc = "cr_finally"])
          /\ Logged(r, <<Ev("notify", q.delresource, 0)>>)
       \/ /\ Set(r, Raise(q, "cr_finally", "Error"))
          /\ Logged(r, <<Ev("notifyFailed", q.delresource, 0)>>)

\* Lines 184-186: lock.clean() releases the lock if this request holds it.
DeleteCalendarResourceFinally(r) ==
    LET q == rq[r] IN
    /\ q.pc = "cr_finally"
    /\ UNCHANGED store
    /\ IF CleansLock(q) /\ q.hasLock
       THEN /\ lockHolder' = [lockHolder EXCEPT ![q.lock] = NoLock]
            /\ Logged(r, <<Ev("unlock", q.delresource, q.lock)>>)
       ELSE UNCHANGED <<lockHolder, log>>
    /\ Set(r, [q EXCEPT !.pc = "cr_return", !.hasLock = FALSE])

ChildFailedWithStatus(q) == q.exc \notin {"none", "Error"}

\* Lines 229-230, 373-374: a bare except records any exception of the child.
ChildFailed(q) == q.exc # "none"

\* The call returns or raises into run (line 440) or into the loop of
\* deleteCalendar (lines 227-230).
DeleteCalendarResourceReturn(r) ==
    LET q == rq[r] IN
    /\ q.pc = "cr_return"
    /\ UNCHANGED <<store, lockHolder>>
    /\ Logged(r, <<Ev("result", q.delresource, IF q.exc = "none" THEN 1 ELSE 0)>>)
    /\ IF q.caller = "run"
       THEN Set(r, Finish(q, q.response, q.exc))
       ELSE Set(r, [q EXCEPT !.pc = "dc_loop", !.exc = "none",
                             !.errors = IF ChildFailed(q)
                                        THEN ErrorsAdd(@, q.delresource, "BadRequest")
                                        ELSE @])

----------------------------------------------------------------------------
(* The underlying delete, twext.web2.dav.fileop.delete: a file is removed  *)
(* or the call raises; a collection is removed with all it holds, or the   *)
(* call returns a multi-status naming the members it could not remove      *)
(* (they stay, and so does the collection), or it raises.                  *)

Candidates(d) == (Members(d) \cap present) \cup {Db(d)}

Kept(d, F) == {d} \cup UNION {Subtree(f) : f \in F}

FailureSets(d) ==
    IF isCollection(d)
    THEN {F \in SUBSET Candidates(d) : Cardinality(F) \in 1..MaxFailed}
    ELSE {}

----------------------------------------------------------------------------
(* deleteResource                                                          *)

\* Line 106: the quota is adjusted whenever the resource reports one.
AdjustsQuota(q) == q.myquota

\* Lines 109-110.
BumpsParent(q) ==
    q.response = NO_CONTENT /\ isPseudoCalendarCollectionResource(q.delparent)

DeleteResourceAfterQuota(q) == IF BumpsParent(q) THEN "dr_bump" ELSE "dr_return"

DeleteResourceAfterDelete(q) ==
    IF AdjustsQuota(q) THEN "dr_quota" ELSE DeleteResourceAfterQuota(q)

\* Lines 96-103: quota reads, then delete(deluri, delresource.fp, self.depth).
DeleteResourceDelete(r) ==
    LET q == rq[r]
        d == q.delresource
        q1 == [q EXCEPT !.myquota = quotaOn,
                        !.old_size = IF quotaOn THEN quotaSize(d) ELSE 0] IN
    /\ q.pc = "dr_delete"
    /\ UNCHANGED <<scheduleTag, quotaOn, quotaUsed, syncToken, index, share,
                   lockHolder>>
    /\ \/ /\ d \in present
          /\ present' = present \ Subtree(d)
          /\ LET q2 == [q1 EXCEPT !.response = NO_CONTENT] IN
             Set(r, [q2 EXCEPT !.pc = DeleteResourceAfterDelete(q2)])
          /\ Logged(r, <<Ev("delete", d, 1)>>)
       \/ /\ d \in present
          /\ \E F \in FailureSets(d) :
               /\ present' = present \ (Subtree(d) \ Kept(d, F))
               /\ LET q2 == [q1 EXCEPT !.response = MultiStatusResponse(
                                          [f \in F |-> "Error"])] IN
                  Set(r, [q2 EXCEPT !.pc = DeleteResourceAfterDelete(q2)])
          /\ Logged(r, <<Ev("delete", d, 0)>>)
       \/ /\ Set(r, Raise(q1, "dr_return",
                          IF d \in present THEN "Error" ELSE "NotFound"))
          /\ Logged(r, <<>>)
          /\ UNCHANGED present

\* Line 107: delresource.quotaSizeAdjust(self.request, -old_size).
DeleteResourceQuota(r) ==
    LET q == rq[r] IN
    /\ q.pc = "dr_quota"
    /\ UNCHANGED <<present, scheduleTag, quotaOn, syncToken, index, share,
                   lockHolder>>
    /\ \/ /\ quotaUsed' = quotaUsed - q.old_size
          /\ Set(r, [q EXCEPT !.pc = DeleteResourceAfterQuota(q)])
          /\ Logged(r, <<Ev("quota", q.delresource, -q.old_size)>>)
       \/ /\ Set(r, Raise(q, "dr_return", "Error"))
          /\ Logged(r, <<>>)
          /\ UNCHANGED quotaUsed

\* Lines 111-113: parent.bumpSyncToken(), then index.deleteResource.
DeleteResourceBump(r) ==
    LET q == rq[r]
        p == q.delparent
        newrevision == syncToken[p] + 1 IN
    /\ q.pc = "dr_bump"
    /\ UNCHANGED <<present, scheduleTag, quotaOn, quotaUsed, share, lockHolder>>
    /\ \/ /\ syncToken' = [syncToken EXCEPT ![p] = newrevision]
          /\ index' = index \cup {[uri |-> q.delresource, rev |-> newrevision]}
          /\ Set(r, [q EXCEPT !.pc = "dr_return"])
          /\ Logged(r, <<Ev("bump", p, newrevision),
                         Ev("index", q.delresource, newrevision)>>)
       \/ /\ syncToken' = [syncToken EXCEPT ![p] = newrevision]
          /\ Set(r, Raise(q, "dr_return", "Error"))
          /\ Logged(r, <<Ev("bump", p, newrevision)>>)
          /\ UNCHANGED index
       \/ /\ Set(r, Raise(q, "dr_return", "Error"))
          /\ Logged(r, <<>>)
          /\ UNCHANGED <<syncToken, index>>

\* Line 115: the response goes to run (455), deleteCalendar (241),
\* deleteAddressBook (384) or deleteCollection (286); an error raised here
\* is caught by none of them.
DeleteResourceReturn(r) ==
    LET q == rq[r] IN
    /\ q.pc = "dr_return"
    /\ UNCHANGED <<store, lockHolder, log>>
    /\ IF q.exc # "none" \/ q.caller = "run"
       THEN Set(r, Finish(q, q.response, q.exc))
       ELSE Set(r, [q EXCEPT !.pc = CASE q.caller = "deleteCalendar" -> "dc_merge"
                                      [] q.caller = "deleteAddressBook" -> "da_merge"
                                      [] OTHER -> "col_merge"])

----------------------------------------------------------------------------
(* deleteAddressBookResource                                               *)

AddressBookAfterQuota(q) ==
    IF q.response = NO_CONTENT THEN "ar_bump" ELSE "ar_return"

AddressBookAfterDelete(q) ==
    IF q.myquota THEN "ar_quota" ELSE AddressBookAfterQuota(q)

\* Lines 313-322: quota reads, then the underlying delete of a file.
DeleteAddressBookResourceDelete(r) ==
    LET q == rq[r]
        d == q.delresource
        q1 == [q EXCEPT !.myquota = quotaOn,
                        !.old_size = IF quotaOn THEN quotaSize(d) ELSE 0] IN
    /\ q.pc = "ar_delete"
    /\ UNCHANGED <<scheduleTag, quotaOn, quotaUsed, syncToken, index, share,
                   lockHolder>>
    /\ \/ /\ d \in present
          /\ present' = present \ {d}
          /\ LET q2 == [q1 EXCEPT !.response = NO_CONTENT] IN
             Set(r, [q2 EXCEPT !.pc = AddressBookAfterDelete(q2)])
          /\ Logged(r, <<Ev("delete", d, 1)>>)
       \/ /\ Set(r, Raise(q1, "ar_return",
                          IF d \in present THEN "Error" ELSE "NotFound"))
          /\ Logged(r, <<>>)
          /\ UNCHANGED present

\* Line 326.
DeleteAddressBookResourceQuota(r) ==
    LET q == rq[r] IN
    /\ q.pc = "ar_quota"
    /\ UNCHANGED <<present, scheduleTag, quotaOn, syncToken, index, share,
                   lockHolder>>
    /\ \/ /\ quotaUsed' = quotaUsed - q.old_size
          /\ Set(r, [q EXCEPT !.pc = AddressBookAfterQuota(q)])
          /\ Logged(r, <<Ev("quota", q.delresource, -q.old_size)>>)
       \/ /\ Set(r, Raise(q, "ar_return", "Error"))
          /\ Logged(r, <<>>)
          /\ UNCHANGED quotaUsed

\* Lines 329-331.
DeleteAddressBookResourceBump(r) ==
    LET q == rq[r]
        p == q.delparent
        newrevision == syncToken[p] + 1 IN
    /\ q.pc = "ar_bump"
    /\ UNCHANGED <<present, scheduleTag, quotaOn, quotaUsed, share, lockHolder>>
    /\ \/ /\ syncToken' = [syncToken EXCEPT ![p] = newrevision]
          /\ index' = index \cup {[uri |-> q.delresource, rev |-> newrevision]}
          /\ Set(r, [q EXCEPT !.pc = "ar_return"])
          /\ Logged(r, <<Ev("bump", p, newrevision),
                         Ev("index", q.delresource, newrevision)>>)
       \/ /\ syncToken' = [syncToken EXCEPT ![p] = newrevision]
          /\ Set(r, Raise(q, "ar_return", "Error"))
          /\ Logged(r, <<Ev("bump", p, newrevision)>>)
          /\ UNCHANGED index
       \/ /\ Set(r, Raise(q, "ar_return", "Error"))
          /\ Logged(r, <<>>)
          /\ UNCHANGED <<syncToken, index>>

\* Line 337 into run (446) or into the loop of deleteAddressBook (371-374).
DeleteAddressBookResourceReturn(r) ==
    LET q == rq[r] IN
    /\ q.pc = "ar_return"
    /\ UNCHANGED <<store, lockHolder>>
    /\ Logged(r, <<Ev("result", q.delresource, IF q.exc = "none" THEN 1 ELSE 0)>>)
    /\ IF q.caller = "run"
       THEN Set(r, Finish(q, q.response, q.exc))
       ELSE Set(r, [q EXCEPT !.pc = "da_loop", !.exc = "none",
                             !.errors = IF ChildFailed(q)
                                        THEN ErrorsAdd(@, q.delresource, "BadRequest")
                                        ELSE @])

----------------------------------------------------------------------------
(* deleteCalendar                                                          *)

DepthUnchecked(depth) == FALSE

\* Lines 206, 261, 350.
IllegalDepth(depth) == depth # "infinity"

DeleteCalendarGateNoDefault(q) ==
    IF IllegalDepth(q.depth) THEN "BadRequest"
    ELSE IF share[q.coll].virtual THEN "unshare"
    ELSE "delete"

\* Lines 201-216: what the checks before the loop decide.
DeleteCalendarGate(q) ==
    IF share[q.coll].default THEN "Forbidden"
    ELSE IF IllegalDepth(q.depth) THEN "BadRequest"
    ELSE IF share[q.coll].virtual THEN "unshare"
    ELSE "delete"

\* deleteCalendar or deleteAddressBook returns response to run (443, 449)
\* or to doDeleteCalendar (lines 275-281).
CollectionReturn(q, response) ==
    IF q.collcaller = "run"
    THEN [Finish(q, response, "none") EXCEPT !.collresponse = response]
    ELSE [q EXCEPT !.pc = "col_apply", !.collresponse = response,
                   !.colerrors = MergeResponse(@, response)]

\* Lines 201-222.
DeleteCalendarCheck(r) ==
    LET q == rq[r]
        g == DeleteCalendarGate(q) IN
    /\ q.pc = "dc_check"
    /\ UNCHANGED <<store, lockHolder, log>>
    /\ Set(r, CASE g = "unshare" -> [q EXCEPT !.pc = "dc_unshare"]
                [] g = "delete" -> [q EXCEPT !.pc = "dc_loop",
                                             !.todo = listChildren(q.coll)]
                [] OTHER -> Finish(q, NoResponse, g))

\* Lines 215-216: delresource.removeVirtualShare(self.request).
DeleteCalendarUnshare(r) ==
    LET q == rq[r] IN
    /\ q.pc = "dc_unshare"
    /\ share' = [share EXCEPT ![q.coll].attached = FALSE]
    /\ Set(r, CollectionReturn(q, NO_CONTENT))
    /\ Logged(r, <<Ev("unshare", q.coll, 0)>>)
    /\ UNCHANGED <<present, scheduleTag, quotaOn, quotaUsed, syncToken, index,
                   lockHolder>>

\* Lines 224-228: the next child is located, outside the try, and
\* deleteCalendarResource is called on it.
DeleteCalendarLocate(r) ==
    LET q == rq[r] IN
    /\ q.pc = "dc_loop"
    /\ q.todo # <<>>
    /\ UNCHANGED <<store, lockHolder>>
    /\ \/ /\ Set(r, EnterLeaf([q EXCEPT !.todo = Tail(@)], "cr_check",
                              joinURL(q.coll, Head(q.todo)), q.coll,
                              "deleteCalendar"))
          /\ Logged(r, <<Ev("attempt", joinURL(q.coll, Head(q.todo)), 0)>>)
       \/ /\ Set(r, Finish(q, NoResponse, "Error"))
          /\ Logged(r, <<Ev("locateFailed", joinURL(q.coll, Head(q.todo)), 0)>>)

\* Lines 235-237: isShared, downgradeFromShare.
DeleteCalendarShared(r) ==
    LET q == rq[r] IN
    /\ q.pc = "dc_loop"
    /\ q.todo = <<>>
    /\ Set(r, [q EXCEPT !.pc = "dc_bump"])
    /\ IF share[q.coll].shared
       THEN /\ share' = [share EXCEPT ![q.coll].shared = FALSE]
            /\ Logged(r, <<Ev("downgrade", q.coll, 0)>>)
       ELSE UNCHANGED <<share, log>>
    /\ UNCHANGED <<present, scheduleTag, quotaOn, quotaUsed, syncToken, index,
                   lockHolder>>

\* Lines 240-241: delresource.bumpSyncToken(), then deleteResource is called.
DeleteCalendarBump(r) ==
    LET q == rq[r]
        newrevision == syncToken[q.coll] + 1 IN
    /\ q.pc = "dc_bump"
    /\ UNCHANGED <<present, scheduleTag, quotaOn, quotaUsed, index, share,
                   lockHolder>>
    /\ \/ /\ syncToken' = [syncToken EXCEPT ![q.coll] = newrevision]
          /\ Set(r, EnterLeaf(q, "dr_delete", q.coll, q.collparent,
                              "deleteCalendar"))
          /\ Logged(r, <<Ev("bump", q.coll, newrevision)>>)
       \/ /\ Set(r, Finish(q, NoResponse, "Error"))
          /\ Logged(r, <<>>)
          /\ UNCHANGED syncToken

RunsHookAlways(response) == TRUE

\* Line 249: the clean-up hook runs.
RunsHook(response) == response = NO_CONTENT

\* Lines 243-253.
DeleteCalendarMerge(r) ==
    LET q == rq[r]
        response == ErrorsResponse(MergeResponse(q.errors, q.response)) IN
    /\ q.pc = "dc_merge"
    /\ UNCHANGED <<store, lockHolder>>
    /\ Set(r, CollectionReturn(q, response))
    /\ IF RunsHook(response)
       THEN Logged(r, <<Ev("deletedCalendar", q.coll, 0)>>)
       ELSE UNCHANGED log

----------------------------------------------------------------------------
(* deleteAddressBook                                                       *)

\* Lines 350-360.
DeleteAddressBookGate(q) ==
    IF IllegalDepth(q.depth) THEN "BadRequest"
    ELSE IF share[q.coll].virtual THEN "unshare"
    ELSE "delete"

\* Lines 350-366.
DeleteAddressBookCheck(r) ==
    LET q == rq[r]
        g == DeleteAddressBookGate(q) IN
    /\ q.pc = "da_check"
    /\ UNCHANGED <<store, lockHolder, log>>
    /\ Set(r, CASE g = "unshare" -> [q EXCEPT !.pc = "da_unshare"]
                [] g = "delete" -> [q EXCEPT !.pc = "da_loop",
                                             !.todo = listChildren(q.coll)]
                [] OTHER -> Finish(q, NoResponse, g))

\* Lines 359-360.
DeleteAddressBookUnshare(r) ==
    LET q == rq[r] IN
    /\ q.pc = "da_unshare"
    /\ share' = [share EXCEPT ![q.coll].attached = FALSE]
    /\ Set(r, CollectionReturn(q, NO_CONTENT))
    /\ Logged(r, <<Ev("unshare", q.coll, 0)>>)
    /\ UNCHANGED <<present, scheduleTag, quotaOn, quotaUsed, syncToken, index,
                   lockHolder>>

\* Lines 368-372.
DeleteAddressBookLocate(r) ==
    LET q == rq[r] IN
    /\ q.pc = "da_loop"
    /\ q.todo # <<>>
    /\ UNCHANGED <<store, lockHolder>>
    /\ \/ /\ Set(r, EnterLeaf([q EXCEPT !.todo = Tail(@)], "ar_delete",
                              joinURL(q.coll, Head(q.todo)), q.coll,
                              "deleteAddressBook"))
          /\ Logged(r, <<Ev("attempt", joinURL(q.coll, Head(q.todo)), 0)>>)
       \/ /\ Set(r, Finish(q, NoResponse, "Error"))
          /\ Logged(r, <<Ev("locateFailed", joinURL(q.coll, Head(q.todo)), 0)>>)

\* Lines 379-381.
DeleteAddressBookShared(r) ==
    LET q == rq[r] IN
    /\ q.pc = "da_loop"
    /\ q.todo = <<>>
    /\ Set(r, [q EXCEPT !.pc = "da_bump"])
    /\ IF share[q.coll].shared
       THEN /\ share' = [share EXCEPT ![q.coll].shared = FALSE]
            /\ Logged(r, <<Ev("downgrade", q.coll, 0)>>)
       ELSE UNCHANGED <<share, log>>
    /\ UNCHANGED <<present, scheduleTag, quotaOn, quotaUsed, syncToken, index,
                   lockHolder>>

\* Lines 383-384.
DeleteAddressBookBump(r) ==
    LET q == rq[r]
        newrevision == syncToken[q.coll] + 1 IN
    /\ q.pc = "da_bump"
    /\ UNCHANGED <<present, scheduleTag, quotaOn, quotaUsed, index, share,
                   lockHolder>>
    /\ \/ /\ syncToken' = [syncToken EXCEPT ![q.coll] = newrevision]
          /\ Set(r, EnterLeaf(q, "dr_delete", q.coll, q.collparent,
                              "deleteAddressBook"))
          /\ Logged(r, <<Ev("bump", q.coll, newrevision)>>)
       \/ /\ Set(r, Finish(q, NoResponse, "Error"))
          /\ Logged(r, <<>>)
          /\ UNCHANGED syncToken

\* Lines 386-392.
DeleteAddressBookMerge(r) ==
    LET q == rq[r]
        response == ErrorsResponse(MergeResponse(q.errors, q.response)) IN
    /\ q.pc = "da_merge"
    /\ UNCHANGED <<store, lockHolder, log>>
    /\ Set(r, CollectionReturn(q, response))

----------------------------------------------------------------------------
(* deleteCollection                                                        *)

\* applyToCalendarCollections: the calendar collections under the target.
findCalendarCollections(resource) ==
    IF Cal \in Subtree(resource) \cap present THEN <<Cal>> ELSE <<>>

\* Lines 261-268.
DeleteCollectionCheck(r) ==
    LET q == rq[r] IN
    /\ q.pc = "col_check"
    /\ UNCHANGED <<store, lockHolder, log>>
    /\ IF IllegalDepth(q.depth)
       THEN Set(r, Finish(q, NoResponse, "BadRequest"))
       ELSE Set(r, [q EXCEPT !.pc = "col_apply", !.colerrors = NoErrors,
                             !.cals = findCalendarCollections(q.resource)])

\* Lines 271-286: doDeleteCalendar on the next calendar collection, or,
\* after the last, deleteResource on the target.
DeleteCollectionApply(r) ==
    LET q == rq[r] IN
    /\ q.pc = "col_apply"
    /\ UNCHANGED <<store, lockHolder, log>>
    /\ IF q.cals # <<>>
       THEN Set(r, EnterCollection([q EXCEPT !.cals = Tail(@)], "dc_check",
                                   Head(q.cals), ParentOf(Head(q.cals)),
                                   "deleteCollection"))
       ELSE Set(r, EnterLeaf(q, "dr_delete", q.resource, q.parent,
                             "deleteCollection"))

\* Lines 288-294.
DeleteCollectionMerge(r) ==
    LET q == rq[r] IN
    /\ q.pc = "col_merge"
    /\ UNCHANGED <<store, lockHolder, log>>
    /\ Set(r, Finish(q, ErrorsResponse(MergeResponse(q.colerrors, q.response)),
                     "none"))

----------------------------------------------------------------------------
DeleteCalendarResource(r) ==
    \/ DeleteCalendarResourceCheck(r)
    \/ DeleteCalendarResourceAcquire(r)
    \/ DeleteCalendarResourceDelete(r)
    \/ DeleteCalendarResourceQuota(r)
    \/ DeleteCalendarResourceBump(r)
    \/ DeleteCalendarResourceNotify(r)
    \/ DeleteCalendarResourceFinally(r)
    \/ DeleteCalendarResourceReturn(r)

DeleteResourceSteps(r) ==
    \/ DeleteResourceDelete(r)
    \/ DeleteResourceQuota(r)
    \/ DeleteResourceBump(r)
    \/ DeleteResourceReturn(r)

DeleteAddressBookResource(r) ==
    \/ DeleteAddressBookResourceDelete(r)
    \/ DeleteAddressBookResourceQuota(r)
    \/ DeleteAddressBookResourceBump(r)
    \/ DeleteAddressBookResourceReturn(r)

DeleteCalendar(r) ==
    \/ DeleteCalendarCheck(r)
    \/ DeleteCalendarUnshare(r)
    \/ DeleteCalendarLocate(r)
    \/ DeleteCalendarShared(r)
    \/ DeleteCalendarBump(r)
    \/ DeleteCalendarMerge(r)

DeleteAddressBook(r) ==
    \/ DeleteAddressBookCheck(r)
    \/ DeleteAddressBookUnshare(r)
    \/ DeleteAddressBookLocate(r)
    \/ DeleteAddressBookShared(r)
    \/ DeleteAddressBookBump(r)
    \/ DeleteAddressBookMerge(r)

DeleteCollection(r) ==
    \/ DeleteCollectionCheck(r)
    \/ DeleteCollectionApply(r)
    \/ DeleteCollectionMerge(r)

Next ==
    \E r \in Req :
        \/ Run(r)
        \/ DeleteCalendarResource(r)
        \/ DeleteResourceSteps(r)
        \/ DeleteAddressBookResource(r)
        \/ DeleteCalendar(r)
        \/ DeleteAddressBook(r)
        \/ DeleteCollection(r)

Spec == Init /\ [][Next]_vars

NextConc == \E r \in Req : Run(r) \/ DeleteCalendarResource(r)

SpecConc == InitConc /\ [][NextConc]_vars

----------------------------------------------------------------------------
(* Properties.                                                             *)

Done(r) == rq[r].pc = "done"

Active(r) == rq[r].pc # "idle"

StrategyOf(r) == Strategy(rq[r].resource, rq[r].parent)

Events(r, op) == {i \in DOMAIN log[r] : log[r][i].op = op}

Ops(r) == {log[r][i].op : i \in DOMAIN log[r]}

Mutations ==
    {"delete", "quota", "bump", "index", "notify", "unshare", "downgrade",
     "deletedCalendar"}

Mutated(r) == Ops(r) \cap Mutations # {}

\* The store is as the requests found it.
Pristine ==
    /\ AllResources \ present \subseteq {CalendarObject}
    /\ index = {}
    /\ \A c \in DOMAIN syncToken : syncToken[c] = 1
    /\ quotaUsed = IF quotaOn THEN SumWeight(present) ELSE 0
    /\ \A c \in DOMAIN share : share[c].attached = share[c].virtual

CollectionStrategies == {"deleteCalendar", "deleteAddressBook", "deleteCollection"}

\* The children whose delete raised, and those whose delete returned.
FailedChildren(r) == {log[r][i].uri : i \in {j \in Events(r, "result") : log[r][j].arg = 0}}

DeletedChildren(r) == {log[r][i].uri : i \in {j \in Events(r, "result") : log[r][j].arg = 1}}

\* The request's target was a calendar or address book that passed the
\* checks before the loop over its children.
LoopEntered(r) ==
    /\ Active(r)
    /\ StrategyOf(r) \in {"deleteCalendar", "deleteAddressBook"}
    /\ rq[r].depth = "infinity"
    /\ ~share[rq[r].resource].virtual
    /\ ~share[rq[r].resource].default
    /\ rq[r].pc \notin {"run", "dc_check", "da_check"}

----------------------------------------------------------------------------
\* C1 (as claimed): a collection delete with a depth other than "infinity"
\* yields BadRequest and mutates nothing.
C1_AlwaysBadRequest ==
    \A r \in Req :
        (Active(r) /\ StrategyOf(r) \in CollectionStrategies
            /\ rq[r].depth # "infinity")
        => /\ ~Mutated(r)
           /\ Done(r) => rq[r].outcome = Plain("BadRequest")

\* C1 (amended): a collection delete with a depth other than "infinity"
\* mutates nothing and yields BadRequest, except that a calendar collection
\* that is the default calendar yields Forbidden, its test coming first.
C1_IllegalDepthRejected ==
    \A r \in Req :
        (Active(r) /\ StrategyOf(r) \in CollectionStrategies
            /\ rq[r].depth # "infinity")
        => /\ ~Mutated(r)
           /\ Pristine
           /\ Done(r) =>
                rq[r].outcome =
                    Plain(IF StrategyOf(r) = "deleteCalendar"
                             /\ share[rq[r].resource].default
                          THEN "Forbidden" ELSE "BadRequest")

C1_Witness ==
    /\ Done(1)
    /\ StrategyOf(1) = "deleteCollection"
    /\ rq[1].depth = "0"
    /\ rq[1].outcome = Plain("BadRequest")

\* C2: a delete whose target is the default calendar yields Forbidden and
\* leaves the store as it was: no child deleted, no quota adjusted, no sync
\* token bumped, no index entry removed, no share detached or downgraded.
C2_DefaultCalendarForbidden ==
    \A r \in Req :
        (Active(r) /\ rq[r].resource = Cal /\ share[Cal].default)
        => /\ ~Mutated(r)
           /\ "lock" \notin Ops(r)
           /\ Pristine
           /\ present = AllResources
           /\ Done(r) => rq[r].outcome = Plain("Forbidden")

C2_Witness ==
    /\ Done(1)
    /\ rq[1].resource = Cal
    /\ share[Cal].default
    /\ rq[1].depth = "infinity"
    /\ rq[1].outcome = Plain("Forbidden")

\* The target carried the header's schedule tag when the request began: it
\* is only this request that can have removed it since.
MatchedAtStart(r) ==
    /\ scheduleTag[rq[r].resource] # ""
    /\ scheduleTag[rq[r].resource] = rq[r].header
    /\ rq[r].resource \in present \/ "delete" \in Ops(r)

\* C3 (as claimed): a client's calendar-object delete with an
\* If-Schedule-Tag-Match header yields PreconditionFailed, with no lock and
\* no mutation, when the target is missing, has no schedule tag or has
\* another tag than the header.
C3_MismatchPreconditionFailed ==
    \A r \in Req :
        (Done(r) /\ StrategyOf(r) = "deleteCalendarResource"
            /\ ~rq[r].internal_request /\ rq[r].header # ""
            /\ ~MatchedAtStart(r))
        => /\ rq[r].outcome = Plain("PreconditionFailed")
           /\ ~Mutated(r)
           /\ "lock" \notin Ops(r)

\* C4: a request that finds the lock of its object's UID held by another
\* request leaves lock.acquire() only by the timeout, which is a Conflict,
\* and a request that timed out has mutated nothing and ends with Conflict.
C4_LockTimeoutConflict ==
    /\ [](\A r \in Req :
            "timeout" \in Ops(r)
            => /\ ~Mutated(r)
               /\ "lock" \notin Ops(r)
               /\ rq[r].pc \in {"cr_finally", "cr_return", "done"}
               /\ rq[r].exc = "Conflict"
               /\ Done(r) => rq[r].outcome = Plain("Conflict"))
    /\ [][\A r \in Req :
            (rq[r].pc = "cr_acquire"
                /\ lockHolder[rq[r].lock] \notin {NoLock, r}
                /\ rq'[r] # rq[r])
            => /\ rq'[r].exc = "Conflict"
               /\ "timeout" \in {log'[r][i].op : i \in DOMAIN log'[r]}
               /\ store' = store
               /\ lockHolder' = lockHolder]_vars

C4_Witness ==
    \E r \in Req, s \in Req :
        /\ r # s
        /\ Done(r)
        /\ rq[r].outcome = Plain("Conflict")
        /\ lockHolder[rq[r].lock] = s
        /\ rq[s].resource = rq[r].resource

\* C5 (as claimed): a calendar collection delete that went through its N
\* children, K of which failed, yields MultiStatus with exactly the K failed
\* URIs in its error map, and NoContent when K = 0.
C5_ExactlyChildErrors ==
    \A r \in Req :
        (Done(r) /\ LoopEntered(r) /\ StrategyOf(r) = "deleteCalendar"
            /\ rq[r].todo = <<>>)
        => IF FailedChildren(r) = {}
           THEN rq[r].outcome = NO_CONTENT
           ELSE /\ rq[r].outcome.code = "MultiStatus"
                /\ DOMAIN rq[r].outcome.errors = FailedChildren(r)

\* C5 (amended): when deleteCalendar returns an outcome, its error map is
\* one BadRequest entry per failed child merged with the entries of the
\* collection-level delete's multi-status, if it returned one; the outcome is
\* NoContent when that map is empty and MultiStatus otherwise.  So when the
\* collection-level delete returned NoContent the map has exactly K entries.
C5_ChildErrorsMerged ==
    \A r \in Req :
        (Done(r) /\ LoopEntered(r) /\ StrategyOf(r) = "deleteCalendar"
            /\ rq[r].outcome.code \in {"NoContent", "MultiStatus"})
        => LET failed == FailedChildren(r)
               more == rq[r].response
               extra == IF more.code = "MultiStatus" THEN DOMAIN more.errors ELSE {} IN
           /\ rq[r].todo = <<>>
           /\ DOMAIN rq[r].outcome.errors = failed \cup extra
           /\ \A u \in failed \ extra : rq[r].outcome.errors[u] = "BadRequest"
           /\ rq[r].outcome.code = "NoContent" <=> failed \cup extra = {}
           /\ more = NO_CONTENT =>
                Cardinality(DOMAIN rq[r].outcome.errors) = Cardinality(failed)

C5_Witness ==
    /\ Done(1)
    /\ LoopEntered(1)
    /\ StrategyOf(1) = "deleteCalendar"
    /\ rq[1].response = NO_CONTENT
    /\ rq[1].outcome.code = "MultiStatus"
    /\ Cardinality(FailedChildren(1)) = 1
    /\ Cardinality(DeletedChildren(1)) = NumChildren - 1
    /\ DOMAIN rq[1].outcome.errors = FailedChildren(1)

C7_LockReleased ==
    \A r \in Req : \A u \in DOMAIN lockHolder :
        lockHolder[u] = r
        => /\ rq[r].pc \in {"cr_delete", "cr_quota", "cr_bump", "cr_notify",
                            "cr_finally"}
           /\ rq[r].lock = u
           /\ rq[r].hasLock

C7_Witness ==
    \E r \in Req :
        /\ rq[r].pc = "cr_return"
        /\ rq[r].exc = "Error"
        /\ "lock" \in Ops(r)
        /\ "delete" \in Ops(r)
        /\ \A u \in DOMAIN lockHolder : lockHolder[u] = NoLock

\* C8 (as claimed): a delete that fails has bumped no sync token, and a
\* delete that succeeds in removing a child of a calendar collection, an
\* inbox or an address book has bumped that collection's token.
C8_TokenUntouchedOnFailure ==
    \A r \in Req :
        Done(r)
        => /\ rq[r].outcome # NO_CONTENT => "bump" \notin Ops(r)
           /\ (rq[r].outcome = NO_CONTENT /\ "delete" \in Ops(r)
                 /\ rq[r].parent \in DOMAIN syncToken)
              => syncToken[rq[r].parent] > 1

\* C9 (as claimed): a call of deleteResource, deleteCalendarResource or
\* deleteAddressBookResource that completes has adjusted the quota exactly
\* when the resource reports a quota and the underlying delete returned
\* NoContent, and then by the negative of the size read before the delete.
C9_QuotaOnlyOnNoContent ==
    \A r \in Req :
        (rq[r].pc \in {"dr_return", "ar_return", "cr_return"} /\ rq[r].exc = "none")
        => LET adj == {i \in Events(r, "quota") : log[r][i].uri = rq[r].delresource} IN
           /\ adj # {} <=> (rq[r].myquota /\ rq[r].response = NO_CONTENT)
           /\ \A i \in adj : log[r][i].arg = -rq[r].old_size

\* C10 (as claimed): a calendar or address book delete that entered its
\* loop attempts every child of the listing, whatever fails for a child.
C10_EveryChildAttempted ==
    \A r \in Req :
        (Done(r) /\ LoopEntered(r))
        => /\ rq[r].todo = <<>>
           /\ "locateFailed" \notin Ops(r)

----------------------------------------------------------------------------
\* The calls of one kind a request made about one resource.
EvAt(r, op, d) ==
    {i \in DOMAIN log[r] : log[r][i].op = op /\ log[r][i].uri = d}

\* The calendar objects whose deleteCalendarResource call has returned.
Returned(r) == {log[r][i].uri : i \in Events(r, "result")}

\* doImplicitScheduling was called for d, whether or not it raised.
Invoked(r, d) == EvAt(r, "notify", d) \cup EvAt(r, "notifyFailed", d)

\* testImplicitSchedulingDELETE reported that an implicit action is needed.
ActionNeeded(r, d) == \E i \in EvAt(r, "testImplicit", d) : log[r][i].arg = 1

NoActionNeeded(r, d) == \E i \in EvAt(r, "testImplicit", d) : log[r][i].arg = 0

\* C11 (as claimed): for each calendar-object delete that has returned, the
\* notification was invoked exactly once when the request is a client's,
\* implicit scheduling is allowed, the trigger reported that an implicit
\* action is needed and the underlying delete committed, after the delete,
\* the sync-token bump and the index update, and not at all otherwise.
C11_NotifiedIffActionNeeded ==
    \A r \in Req : \A d \in Returned(r) :
        /\ Cardinality(Invoked(r, d)) =
             IF /\ ~rq[r].internal_request
                /\ rq[r].allowImplicitSchedule
                /\ ActionNeeded(r, d)
                /\ EvAt(r, "delete", d) # {}
             THEN 1 ELSE 0
        /\ \A i \in Invoked(r, d) :
             /\ \E j \in EvAt(r, "delete", d) : j < i
             /\ \E j \in EvAt(r, "index", d) : j < i
             /\ \A j \in EvAt(r, "quota", d) : j < i

\* C12: in a client's calendar-object delete with implicit scheduling
\* allowed, when the trigger reports that an implicit action is needed and
\* the parent is a virtual share, nothing is locked or mutated and the
\* delete fails with Forbidden.
C12_ShareeForbidden ==
    \A r \in Req :
        LET d == rq[r].delresource IN
        (/\ Active(r)
         /\ rq[r].pc # "run"
         /\ rq[r].resource = CalendarObject
         /\ ActionNeeded(r, d)
         /\ share[rq[r].parent].virtual)
        => /\ ~rq[r].internal_request /\ rq[r].allowImplicitSchedule
           /\ ~Mutated(r)
           /\ Ops(r) \cap {"lock", "timeout", "unlock", "notifyFailed"} = {}
           /\ lockHolder = [u \in DOMAIN lockHolder |-> NoLock]
           /\ Pristine
           /\ rq[r].exc = "Forbidden"
           /\ Done(r) => rq[r].outcome = Plain("Forbidden")

C12_Witness ==
    /\ Done(1)
    /\ rq[1].resource = CalendarObject
    /\ ActionNeeded(1, CalendarObject)
    /\ share[Cal].virtual
    /\ rq[1].outcome = Plain("Forbidden")

\* The strategy run's rules give each target of the resource tree.
ExpectedStrategy(u) ==
    IF u.c = "cal" /\ u.n > 0 THEN "deleteCalendarResource"
    ELSE IF u.c = "cal" THEN "deleteCalendar"
    ELSE IF u.c = "ab" /\ u.n > 0 THEN "deleteAddressBookResource"
    ELSE IF u.c = "ab" THEN "deleteAddressBook"
    ELSE IF u.c = "home" THEN "deleteCollection"
    ELSE "deleteResource"

StrategyNames ==
    {"deleteCalendarResource", "deleteCalendar", "deleteAddressBookResource",
     "deleteAddressBook", "deleteCollection", "deleteResource"}

\* C13: run enters exactly one strategy, the one of the first rule that
\* matches (a calendar collection or an address book goes to its own
\* strategy and not to the generic collection delete, a scheduling inbox's
\* child to the plain delete), and the request's outcome is what that
\* strategy returned or raised.
C13_FirstMatchingStrategy ==
    \A r \in Req :
        (Active(r) /\ rq[r].pc # "run")
        => /\ log[r][1].op = ExpectedStrategy(rq[r].resource)
           /\ log[r][1].uri = rq[r].resource
           /\ Cardinality({i \in DOMAIN log[r] : log[r][i].op \in StrategyNames}) = 1
           /\ (Done(r) /\ log[r][1].op \in {"deleteCalendarResource",
                     "deleteAddressBookResource", "deleteResource"})
                => rq[r].outcome = IF rq[r].exc = "none" THEN rq[r].response
                                   ELSE Plain(rq[r].exc)
           /\ (Done(r) /\ log[r][1].op \in {"deleteCalendar", "deleteAddressBook"}
                   /\ rq[r].collresponse # NoResponse)
                => rq[r].outcome = rq[r].collresponse

C13_Witness ==
    /\ Done(1)
    /\ rq[1].resource = Cal
    /\ log[1][1].op = "deleteCalendar"
    /\ rq[1].outcome.code = "MultiStatus"

\* The revisions the index recorded for a removed resource.
IndexedRevisions(d) == {e.rev : e \in {x \in index : x.uri = d}}

\* The revisions a request's own bumps returned.
OwnRevisions(r) == {log[r][i].arg : i \in Events(r, "bump")}

Succeeded(r) == Done(r) /\ rq[r].outcome = NO_CONTENT

\* C14 (as claimed): when the concurrent calendar-object deletes on children
\* of one collection have all ended, the collection's SyncToken has advanced
\* by the number of deletes that succeeded, each successful delete recorded
\* its child's removal with the revision its own bump returned, and no two
\* deletes applied the same revision.
C14_TokenCountsSuccesses ==
    (\A r \in Req : Done(r))
    => /\ syncToken[Cal] - 1 = Cardinality({r \in Req : Succeeded(r)})
       /\ \A r \in Req :
            Succeeded(r)
            => \E v \in OwnRevisions(r) : v \in IndexedRevisions(rq[r].resource)
       /\ \A r1, r2 \in Req :
            r1 # r2 => OwnRevisions(r1) \cap OwnRevisions(r2) = {}

\* The part of C14 that does not count the successes: revisions are the
\* requests' own and distinct.
C14_OwnDistinctRevisions ==
    /\ \A r \in Req :
         Succeeded(r)
         => \E v \in OwnRevisions(r) : v \in IndexedRevisions(rq[r].resource)
    /\ \A r1, r2 \in Req :
         r1 # r2 => OwnRevisions(r1) \cap OwnRevisions(r2) = {}
    /\ syncToken[Cal] - 1 = Cardinality(UNION {OwnRevisions(r) : r \in Req})

\* The position in the log of the first call of op about d, 0 when none.
FirstAt(r, op, d) ==
    IF EvAt(r, op, d) = {} THEN 0
    ELSE CHOOSE i \in EvAt(r, op, d) : \A j \in EvAt(r, op, d) : i <= j

\* The mutating calls deleteCalendarResource made for d: those logged
\* between the trigger's test of d and the return of d's delete.
CallsFor(r, d) ==
    {j \in DOMAIN log[r] :
        /\ FirstAt(r, "testImplicit", d) < j
        /\ j < FirstAt(r, "result", d)
        /\ log[r][j].op \in {"delete", "quota", "bump", "index", "notify",
                             "notifyFailed"}}

LockTried(r, d) == EvAt(r, "lock", d) \cup EvAt(r, "timeout", d)

\* C15: for each calendar-object delete that has returned, the lock was
\* taken if and only if the request is a client's, implicit scheduling is
\* allowed, the trigger reported that an implicit action is needed and the
\* parent is no virtual share; a delete that needs no implicit action takes
\* no lock; a lock that was taken was acquired before the underlying
\* delete and cleaned after the delete, the quota adjustment, the
\* sync-token bump, the index update and the notification, and the request
\* holds it while it makes these calls.
C15_LockIffActionNeeded ==
    \A r \in Req :
        /\ \A d \in Returned(r) :
             /\ LockTried(r, d) # {}
                <=> (/\ ~rq[r].internal_request
                     /\ rq[r].allowImplicitSchedule
                     /\ ActionNeeded(r, d)
                     /\ ~share[ParentOf(d)].virtual)
             /\ NoActionNeeded(r, d) => LockTried(r, d) = {}
             /\ Cardinality(EvAt(r, "lock", d)) <= 1
             /\ \A i \in EvAt(r, "lock", d) :
                  /\ i = FirstAt(r, "testImplicit", d) + 1
                  /\ \E k \in EvAt(r, "unlock", d) :
                       \A j \in CallsFor(r, d) : i < j /\ j < k
        /\ (rq[r].pc \in {"cr_delete", "cr_quota", "cr_bump", "cr_notify",
                          "cr_finally"}
              /\ rq[r].lock # NoLock /\ rq[r].hasLock)
           => lockHolder[rq[r].lock] = r
        /\ (rq[r].pc \in {"cr_delete", "cr_quota", "cr_bump", "cr_notify"}
              /\ rq[r].lock # NoLock)
           => rq[r].hasLock

C15_Witness ==
    /\ Done(1)
    /\ rq[1].resource = CalendarObject
    /\ EvAt(1, "lock", CalendarObject) # {}
    /\ EvAt(1, "notify", CalendarObject) # {}
    /\ EvAt(1, "unlock", CalendarObject) # {}
    /\ Succeeded(1)

\* A request dispatched by run to deleteCalendar that went through the
\* loop over the children and ended with a response.
CalendarDeleted(r) ==
    /\ Done(r)
    /\ rq[r].resource = Cal
    /\ LoopEntered(r)
    /\ rq[r].outcome.code \in {"NoContent", "MultiStatus"}

LastResult(r) ==
    IF Events(r, "result") = {} THEN 1
    ELSE CHOOSE i \in Events(r, "result") : \A j \in Events(r, "result") : j <= i

\* The bumps of the collection's token that the collection-level step made:
\* those after the last child's delete returned.
CollectionBumps(r) == {i \in EvAt(r, "bump", Cal) : i > LastResult(r)}

\* C16 (as claimed): in a successful or partially failed delete of a
\* non-virtual calendar collection with N children of which K failed, the
\* collection-level step bumps the collection's token exactly once, after
\* all children and before the collection's own delete, and the token has
\* advanced by (N - K) + 1.
C16_TokenAdvance ==
    \A r \in Req :
        CalendarDeleted(r)
        => /\ Cardinality(CollectionBumps(r)) = 1
           /\ \A i \in CollectionBumps(r) :
                \A j \in EvAt(r, "delete", Cal) : i < j
           /\ syncToken[Cal] - 1 =
                (Cardinality(Returned(r)) - Cardinality(FailedChildren(r))) + 1

\* The part of C16 that does not count the failures: one collection-level
\* bump, placed as claimed, and one bump for each child whose underlying
\* delete was followed by its bump.
C16_OneCollectionBump ==
    \A r \in Req :
        CalendarDeleted(r)
        => /\ Cardinality(CollectionBumps(r)) = 1
           /\ \A i \in CollectionBumps(r) :
                \A j \in EvAt(r, "delete", Cal) : i < j
           /\ syncToken[Cal] - 1 = Cardinality(EvAt(r, "bump", Cal))
           /\ Cardinality(EvAt(r, "bump", Cal)) >=
                Cardinality(DeletedChildren(r)) + 1

\* deleteResource returned NoContent for the collection itself.
CollectionLevelNoContent(r) ==
    /\ rq[r].delresource = Cal
    /\ rq[r].response = NO_CONTENT
    /\ rq[r].exc = "none"

\* C17: deleteCalendar, past its checks, returns NoContent and runs the
\* deletedCalendar hook if and only if no child failed and the
\* collection-level delete returned NoContent; with any other
\* collection-level outcome the request's outcome is not NoContent and the
\* hook is not run.
C17_HookIffNoContent ==
    \A r \in Req :
        (LoopEntered(r) /\ rq[r].resource = Cal)
        => /\ "deletedCalendar" \in Ops(r)
              <=> (/\ Done(r)
                   /\ FailedChildren(r) = {}
                   /\ CollectionLevelNoContent(r))
           /\ Done(r)
              => (rq[r].outcome = NO_CONTENT
                  <=> (FailedChildren(r) = {} /\ CollectionLevelNoContent(r)))

C17_Witness ==
    /\ Done(1)
    /\ rq[1].resource = Cal
    /\ LoopEntered(1)
    /\ FailedChildren(1) = {}
    /\ rq[1].delresource = Cal
    /\ rq[1].response.code = "MultiStatus"
    /\ rq[1].outcome.code = "MultiStatus"
    /\ "deletedCalendar" \notin Ops(1)

\* C18 (as claimed): when a client deletes a calendar collection with an
\* If-Schedule-Tag-Match header, the precondition of each child lets the
\* child's delete proceed exactly when the header equals that child's own
\* ScheduleTag.
C18_ChildTagCompared ==
    \A r \in Req :
        (Active(r) /\ rq[r].resource = Cal
            /\ ~rq[r].internal_request /\ rq[r].header # "")
        => \A i \in Events(r, "ifScheduleMatch") :
             log[r][i].arg =
                IF scheduleTag[log[r][i].uri] = rq[r].header THEN 1 ELSE 0

\* The URIs of calendar objects.
CalendarObjects == {joinURL(Cal, i) : i \in 1..NumChildren}

\* C19 (as claimed): after a calendar-collection delete has returned a
\* MultiStatus, every child in its error map is still in the store, and no
\* child has left the store without its own delete having succeeded.
C19_FailedChildrenKept ==
    \A r \in Req :
        (Done(r) /\ rq[r].resource = Cal /\ rq[r].outcome.code = "MultiStatus")
        => /\ \A u \in DOMAIN rq[r].outcome.errors \cap CalendarObjects :
                u \in present
           /\ \A u \in CalendarObjects \ present : u \in DeletedChildren(r)

\* C20: while the calendar collection is the default calendar no request
\* removes it or a child of it; a generic collection delete that reaches it
\* calls nothing that mutates, never runs the delete of the top-level
\* collection, and ends with Forbidden.
C20_DefaultCalendarKept ==
    \A r \in Req :
        (Active(r) /\ share[Cal].default)
        => /\ Subtree(Cal) \subseteq present
           /\ "deletedCalendar" \notin Ops(r)
           /\ (rq[r].resource = Home /\ rq[r].depth = "infinity")
              => /\ ~Mutated(r)
                 /\ Pristine
                 /\ present = AllResources
                 /\ rq[r].pc \in {"run", "col_check", "col_apply", "dc_check",
                                  "done"}
                 /\ Done(r) => rq[r].outcome = Plain("Forbidden")

C20_Witness ==
    /\ Done(1)
    /\ rq[1].resource = Home
    /\ rq[1].depth = "infinity"
    /\ share[Cal].default
    /\ log[1][1].op = "deleteCollection"
    /\ rq[1].coll = Cal
    /\ rq[1].outcome = Plain("Forbidden")

====
